---- MODULE Spec2Model ----
(***************************************************************************)
(* FORGE audio-to-video pipeline (corboo/qp1-tools).                       *)
(*                                                                         *)
(* Two front ends drive the same four stages (transcribe, plan, generate   *)
(* clips, assemble):                                                       *)
(*   src/api.py  - FastAPI service: generate_video (Submit) stores a job   *)
(*                 in the JOBS dictionary and schedules                    *)
(*                 process_audio_to_video as a background task, which a    *)
(*                 thread of the worker pool runs while get_status and     *)
(*                 download_video read JOBS from other threads;            *)
(*   src/app.py  - Streamlit script: main() runs the pipeline inline.      *)
(* A behaviour of Spec is a run of one of the two programs (variable       *)
(* program).  SpecClip applies app.py's generate_video_clip and the        *)
(* prompt composition of main() to inputs drawn from bounded sets.         *)
(***************************************************************************)
EXTENDS Integers, Sequences, FiniteSets, TLC

VARIABLES
    program,    \* "api" (uvicorn api:app) or "app" (streamlit run app.py)
    env,        \* api.py get_api_key: which API keys are configured
    JOBS,       \* api.py JOBS: job_id -> dict
    task,       \* background tasks: locals and position of process_audio_to_video
    files,      \* files under OUTPUT_DIR: path -> content
    calls,      \* calls made to providers and to the media toolchain, in order
    rd,         \* a get_status / download_video request in progress
    resp,       \* the last response returned to a client
    app,        \* app.py main(): the locals and position of the inline pipeline
    clip,       \* one application of app.py's prompt composition and generate_video_clip
    planner,    \* one application of app.py's clip-count heuristic
    chooser,    \* one pass of app.py's clip loop choosing reference images
    compress    \* one call of app.py's compress_audio_for_whisper

(***************************************************************************)
(* Bounds of the model.                                                    *)
(***************************************************************************)
\* the longest plan the planner returns
MaxScenes == 2

\* the longest scene duration handed to generate_video_clip
MaxDuration == 24

\* the longest audio, in seconds, handed to the planner
MaxTotalDuration == 400

\* the most reference images uploaded, and the longest plan they are assigned to
MaxImages == 3

MaxPlan == 7

\* the longest duration, in seconds, ffprobe reports for an oversized file
MaxProbe == 6000

\* job ids, uuid4()[:8] in the code
JobIds == {"a"}

\* background-task slots
TaskIds == {1}

(***************************************************************************)
(* Python dictionaries: a dict is a function whose domain is its key set.  *)
(***************************************************************************)
Put(d, k, v) == (k :> v) @@ d

Has(d, k) == k \in DOMAIN d

\* dict.get(k) with default None
NoneValue == [none |-> TRUE]

Get(d, k) == IF k \in DOMAIN d THEN d[k] ELSE NoneValue

Remove(d, k) == [x \in (DOMAIN d) \ {k} |-> d[x]]

EmptyDict == <<>>

(***************************************************************************)
(* Paths under OUTPUT_DIR and contents of files.                           *)
(***************************************************************************)
AudioPath(j) == <<j, "audio.mp3", 0>>

ClipPath(j, i) == <<j, "clip", i>>

ConcatPath(j) == <<j, "concat.mp4", 0>>

ListPath(j) == <<j, "concat.mp4.txt", 0>>

FinalPath(j) == <<j, "final.mp4", 0>>

\* the audio a client submits: 60 seconds of sound
AudioContent == [kind |-> "audio", seconds |-> 60]

\* the video the provider renders for a prompt
ClipContent(prompt) == [kind |-> "clip", of |-> prompt]

\* the stream-copy concatenation of the listed files, in list order
ConcatContent(contents) == [kind |-> "concat", of |-> contents]

FinalContent(video, audio) == [kind |-> "final", video |-> video, audio |-> audio]

(***************************************************************************)
(* Prompts.                                                                *)
(***************************************************************************)
NoOverride == <<"none", 0>>

OverrideText == <<"override", 0>>

\* the k-th scene description of a planner response (k = 1..N)
SceneText(k) == <<"scene", k>>

\* a planner response that holds no JSON array: the raw message text
RawContent == <<"content", 0>>

(***************************************************************************)
(* api.py: the job store and the background task.                          *)
(***************************************************************************)
\* a message text
Msg(s) == [text |-> s]

\* f"Generating clip {i+1}/{len(scenes)}..."
ClipMsg(i, n) == [text |-> "Generating clip {i+1}/{len(scenes)}...", i |-> i + 1, n |-> n]

\* JOBS[job_id][k] = v
SetJob(j, k, v) == Put(JOBS, j, Put(JOBS[j], k, v))

\* the record generate_video stores for a new job (api.py 369-373)
NewJob == [status |-> "pending", progress |-> 0, message |-> Msg("Job queued")]

\* result.get("video_url", "") when the response carries no video_url
EmptyUrl == [video |-> <<"", 0>>]

\* the URL the provider returns for the clip it rendered for a prompt
UrlOf(prompt) == [video |-> prompt]

\* a task slot nothing was scheduled on
NoTask ==
    [pc |-> "unscheduled", job_id |-> "", prompt_override |-> NoOverride,
     scenes |-> <<>>, i |-> 0, video_clips |-> <<>>, video_url |-> EmptyUrl,
     k |-> 0, exc |-> ""]

\* background_tasks.add_task(process_audio_to_video, job_id, audio_path, request)
NewTask(j, ov) == [NoTask EXCEPT !.pc = "L233", !.job_id = j, !.prompt_override = ov]

Idle == [op |-> "idle"]

Log(t, op, arg) == Append(calls, [task |-> t, op |-> op, arg |-> arg])

\* control moves from t's statement to the statement at pc
Goto(t, pc) == [task EXCEPT ![t].pc = pc]

\* a failed statement that is run again: the error is noted and control stays
RetryOnError(t, e) == [task EXCEPT ![t].exc = e]

\* an exception with text e leaves the try block: `except Exception as e` (api.py 308)
Raise(t, e) == [task EXCEPT ![t].pc = "L309", ![t].exc = e]

\* the clip progress without its base of 30
ClipProgressNoBase(i, n) == (50 * i) \div n

\* 30 + int((i / len(scenes)) * 50)  (api.py 268); the float product truncates to
\* floor(50*i/n) for every 0 <= i < n < 50
ClipProgress(i, n) == 30 + ((50 * i) \div n)

\* the statement after the clip loop's body for index i: the next iteration or step 4
AfterClip(t, i) == IF i < Len(task[t].scenes) THEN "L268" ELSE "L282"

(***************************************************************************)
(* generate_video (POST /generate), api.py 329-392.                        *)
(***************************************************************************)
\* An accepted request: the audio is stored, the job is created pending and the
\* background task is scheduled.  uuid4()[:8] may return any id.
Submit(t, j, ov) ==
    /\ program = "api"
    /\ task[t].pc = "unscheduled"
    /\ files' = Put(files, AudioPath(j), AudioContent)
    /\ JOBS' = Put(JOBS, j, NewJob)
    /\ task' = [task EXCEPT ![t] = NewTask(j, ov)]
    /\ resp' = [op |-> "generate", code |-> 200, job_id |-> j, status |-> "pending",
                message |-> Msg("Job queued for processing")]
    /\ UNCHANGED <<program, chooser, compress, planner, app, clip, env, calls, rd>>

\* a handler that stores the job record before it reads the audio
SubmitRejectedAfterCreate(j, why) ==
    /\ program = "api"
    /\ files' = IF why = "decode" THEN Put(files, AudioPath(j), [kind |-> "empty"])
                ELSE files
    /\ JOBS' = Put(JOBS, j, NewJob)
    /\ resp' = [op |-> "generate", code |-> IF why = "no audio" THEN 400 ELSE 500]
    /\ UNCHANGED <<program, chooser, compress, planner, app, clip, env, task, calls, rd>>

\* A rejected request: no audio source (HTTP 400), the audio URL cannot be
\* fetched, or the base64 text does not decode (the file is already opened for
\* writing then, so an empty file is left).
SubmitRejected(j, why) ==
    /\ program = "api"
    /\ files' = IF why = "decode" THEN Put(files, AudioPath(j), [kind |-> "empty"])
                ELSE files
    /\ resp' = [op |-> "generate", code |-> IF why = "no audio" THEN 400 ELSE 500]
    /\ UNCHANGED <<program, chooser, compress, planner, app, clip, env, JOBS, task, calls, rd>>

(***************************************************************************)
(* process_audio_to_video, api.py 230-310, one action per statement that   *)
(* writes JOBS or calls out; the name gives the statement's line.          *)
(***************************************************************************)
L233_status_processing(t) ==
    /\ task[t].pc = "L233"
    /\ JOBS' = SetJob(task[t].job_id, "status", "processing")
    /\ task' = Goto(t, "L234")
    /\ UNCHANGED <<program, chooser, compress, planner, app, clip, env, files, calls, rd, resp>>

L234_progress_0(t) ==
    /\ task[t].pc = "L234"
    /\ JOBS' = SetJob(task[t].job_id, "progress", 0)
    /\ task' = Goto(t, "L236")
    /\ UNCHANGED <<program, chooser, compress, planner, app, clip, env, files, calls, rd, resp>>

\* get_api_key twice, then the two checks
L236_api_keys(t) ==
    /\ task[t].pc = "L236"
    /\ task' = IF ~env.openai THEN Raise(t, "OpenAI API key not configured")
               ELSE IF ~env.ltx THEN Raise(t, "LTX API key not configured")
               ELSE Goto(t, "L245")
    /\ UNCHANGED <<program, chooser, compress, planner, app, clip, env, JOBS, files, calls, rd, resp>>

L245_message_transcribing(t) ==
    /\ task[t].pc = "L245"
    /\ JOBS' = SetJob(task[t].job_id, "message", Msg("Transcribing audio..."))
    /\ task' = Goto(t, "L246")
    /\ UNCHANGED <<program, chooser, compress, planner, app, clip, env, files, calls, rd, resp>>

L246_progress_10(t) ==
    /\ task[t].pc = "L246"
    /\ JOBS' = SetJob(task[t].job_id, "progress", 10)
    /\ task' = Goto(t, "L248")
    /\ UNCHANGED <<program, chooser, compress, planner, app, clip, env, files, calls, rd, resp>>

\* if request.prompt_override: scenes = [request.prompt_override]
L248_prompt_override(t) ==
    /\ task[t].pc = "L248"
    /\ task[t].prompt_override # NoOverride
    /\ task' = [task EXCEPT ![t].pc = "L264", ![t].scenes = <<task[t].prompt_override>>]
    /\ UNCHANGED <<program, chooser, compress, planner, app, clip, env, JOBS, files, calls, rd, resp>>

\* else: transcript = transcribe_audio(audio_path, openai_key)
L251_transcribe_audio(t, ok) ==
    /\ task[t].pc = "L248"
    /\ task[t].prompt_override = NoOverride
    /\ calls' = Log(t, "transcribe_audio", AudioPath(task[t].job_id))
    /\ task' = IF ok THEN Goto(t, "L254") ELSE Raise(t, "transcribe_audio failed")
    /\ UNCHANGED <<program, chooser, compress, planner, app, clip, env, JOBS, files, rd, resp>>

L254_message_planning(t) ==
    /\ task[t].pc = "L254"
    /\ JOBS' = SetJob(task[t].job_id, "message", Msg("Generating scene descriptions..."))
    /\ task' = Goto(t, "L255")
    /\ UNCHANGED <<program, chooser, compress, planner, app, clip, env, files, calls, rd, resp>>

L255_progress_20(t) ==
    /\ task[t].pc = "L255"
    /\ JOBS' = SetJob(task[t].job_id, "progress", 20)
    /\ task' = Goto(t, "L261")
    /\ UNCHANGED <<program, chooser, compress, planner, app, clip, env, files, calls, rd, resp>>

(***************************************************************************)
(* generate_scene_prompts, api.py 121-168.  A response of the planner is   *)
(*   "error"     the HTTP call raises (timeout, HTTP error, no choices)    *)
(*   "array"     the content is a JSON array of n strings                  *)
(*   "wrapped"   a JSON array of n strings inside other text               *)
(*   "bad array" other text with [...] in it that is no JSON               *)
(*   "text"      other text without [...]                                  *)
(***************************************************************************)
PlannerResponses ==
    {[kind |-> "error", n |-> 0], [kind |-> "bad array", n |-> 0], [kind |-> "text", n |-> 0]}
    \cup {[kind |-> kd, n |-> n] : kd \in {"array", "wrapped"}, n \in 0..MaxScenes}

SceneList(n) == [k \in 1..n |-> SceneText(k)]

\* what generate_scene_prompts does with response r: the list it returns, or the
\* exception it raises
ParseScenes(r) ==
    CASE r.kind = "error"     -> [ok |-> FALSE, exc |-> "generate_scene_prompts failed", scenes |-> <<>>]
      [] r.kind = "array"     -> [ok |-> TRUE, exc |-> "", scenes |-> SceneList(r.n)]
      [] r.kind = "wrapped"   -> [ok |-> TRUE, exc |-> "", scenes |-> SceneList(r.n)]
      [] r.kind = "bad array" -> [ok |-> FALSE, exc |-> "JSONDecodeError", scenes |-> <<>>]
      [] r.kind = "text"      -> [ok |-> TRUE, exc |-> "", scenes |-> <<RawContent>>]

L261_generate_scene_prompts(t, r) ==
    /\ task[t].pc = "L261"
    /\ calls' = Log(t, "generate_scene_prompts", "transcript")
    /\ task' = IF ParseScenes(r).ok
               THEN [task EXCEPT ![t].pc = "L264", ![t].scenes = ParseScenes(r).scenes]
               ELSE Raise(t, ParseScenes(r).exc)
    /\ UNCHANGED <<program, chooser, compress, planner, app, clip, env, JOBS, files, rd, resp>>

\* message, video_clips = [], and the loop's first test
L264_message_generating(t) ==
    /\ task[t].pc = "L264"
    /\ JOBS' = SetJob(task[t].job_id, "message", Msg("Generating video clips..."))
    /\ task' = [task EXCEPT ![t].pc = AfterClip(t, 0), ![t].video_clips = <<>>, ![t].i = 0]
    /\ UNCHANGED <<program, chooser, compress, planner, app, clip, env, files, calls, rd, resp>>

L268_progress_clip(t) ==
    /\ task[t].pc = "L268"
    /\ JOBS' = SetJob(task[t].job_id, "progress", ClipProgress(task[t].i, Len(task[t].scenes)))
    /\ task' = Goto(t, "L269")
    /\ UNCHANGED <<program, chooser, compress, planner, app, clip, env, files, calls, rd, resp>>

L269_message_clip(t) ==
    /\ task[t].pc = "L269"
    /\ JOBS' = SetJob(task[t].job_id, "message", ClipMsg(task[t].i, Len(task[t].scenes)))
    /\ task' = Goto(t, "L271")
    /\ UNCHANGED <<program, chooser, compress, planner, app, clip, env, files, calls, rd, resp>>

\* the clip loop with a `try: ... except: continue` around the generation call:
\* a clip whose generation raises is skipped
L271_skip_failed_clip(t, out) ==
    /\ task[t].pc = "L271"
    /\ calls' = Log(t, "generate_video_clip",
                    [i |-> task[t].i, prompt |-> task[t].scenes[task[t].i + 1], duration |-> 6])
    /\ task' = CASE out = "raise"  -> [task EXCEPT ![t].i = task[t].i + 1,
                                                   ![t].pc = AfterClip(t, task[t].i + 1)]
                 [] out = "no url" -> [task EXCEPT ![t].pc = "L278", ![t].video_url = EmptyUrl]
                 [] out = "url"    -> [task EXCEPT ![t].pc = "L278",
                                         ![t].video_url = UrlOf(task[t].scenes[task[t].i + 1])]
    /\ UNCHANGED <<program, chooser, compress, planner, app, clip, env, JOBS, files, rd, resp>>

\* video_url = generate_video_clip(scene, ...), api.py 170-192: the call raises,
\* or returns the response's video_url, "" when it has none
L271_generate_video_clip(t, out) ==
    /\ task[t].pc = "L271"
    /\ calls' = Log(t, "generate_video_clip",
                    [i |-> task[t].i, prompt |-> task[t].scenes[task[t].i + 1], duration |-> 6])
    /\ task' = CASE out = "raise"  -> Raise(t, "generate_video_clip failed")
                 [] out = "no url" -> [task EXCEPT ![t].pc = "L278", ![t].video_url = EmptyUrl]
                 [] out = "url"    -> [task EXCEPT ![t].pc = "L278",
                                         ![t].video_url = UrlOf(task[t].scenes[task[t].i + 1])]
    /\ UNCHANGED <<program, chooser, compress, planner, app, clip, env, JOBS, files, rd, resp>>

\* video_clips.insert(0, clip_path) in place of append
PrependClip(t, path) ==
    [task EXCEPT ![t].video_clips = <<path>> \o task[t].video_clips,
                 ![t].i = task[t].i + 1,
                 ![t].pc = AfterClip(t, task[t].i + 1)]

\* video_clips.append(clip_path), then the loop's next test
AppendClip(t, path) ==
    [task EXCEPT ![t].video_clips = Append(task[t].video_clips, path),
                 ![t].i = task[t].i + 1,
                 ![t].pc = AfterClip(t, task[t].i + 1)]

\* download_file(video_url, clip_path); video_clips.append(clip_path).
\* urlretrieve raises on "" (unknown url type) and on a failed transfer, which
\* may leave a truncated file.
L278_download_clip(t, out) ==
    /\ task[t].pc = "L278"
    /\ out = "ok" => task[t].video_url # EmptyUrl
    /\ out = "partial" => task[t].video_url # EmptyUrl
    /\ calls' = Log(t, "download_file", ClipPath(task[t].job_id, task[t].i))
    /\ files' = CASE out = "ok" -> Put(files, ClipPath(task[t].job_id, task[t].i),
                                       ClipContent(task[t].video_url.video))
                  [] out = "partial" -> Put(files, ClipPath(task[t].job_id, task[t].i),
                                            [kind |-> "truncated"])
                  [] out = "raise" -> files
    /\ task' = IF out = "ok" THEN AppendClip(t, ClipPath(task[t].job_id, task[t].i))
               ELSE Raise(t, "download_file failed")
    /\ UNCHANGED <<program, chooser, compress, planner, app, clip, env, JOBS, rd, resp>>

L282_message_assembling(t) ==
    /\ task[t].pc = "L282"
    /\ JOBS' = SetJob(task[t].job_id, "message", Msg("Assembling video..."))
    /\ task' = Goto(t, "L283")
    /\ UNCHANGED <<program, chooser, compress, planner, app, clip, env, files, calls, rd, resp>>

L283_progress_85(t) ==
    /\ task[t].pc = "L283"
    /\ JOBS' = SetJob(task[t].job_id, "progress", 85)
    /\ task' = Goto(t, "L286")
    /\ UNCHANGED <<program, chooser, compress, planner, app, clip, env, files, calls, rd, resp>>

\* ffmpeg's concat demuxer needs at least one input and every input a video
CanConcat(paths) ==
    /\ Len(paths) > 0
    /\ \A n \in 1..Len(paths) : Has(files, paths[n]) /\ files[paths[n]].kind = "clip"

\* what a call of concatenate_videos hands to ffmpeg: the paths written to the
\* list file and what each holds when ffmpeg reads it
ConcatInput(paths) ==
    [paths |-> paths, contents |-> [n \in 1..Len(paths) |-> Get(files, paths[n])]]

\* concatenate_videos(video_clips, concat_path), api.py 198-211: the list file is
\* written, ffmpeg runs (check=True), the list file is removed
L286_concatenate_videos(t, ok) ==
    /\ task[t].pc = "L286"
    /\ ok => CanConcat(task[t].video_clips)
    /\ calls' = Log(t, "concatenate_videos", ConcatInput(task[t].video_clips))
    /\ files' = IF ok
                THEN Put(files, ConcatPath(task[t].job_id),
                         ConcatContent(ConcatInput(task[t].video_clips).contents))
                ELSE Put(files, ListPath(task[t].job_id), [kind |-> "list"])
    /\ task' = IF ok THEN Goto(t, "L289") ELSE Raise(t, "concatenate_videos failed")
    /\ UNCHANGED <<program, chooser, compress, planner, app, clip, env, JOBS, rd, resp>>

L289_message_audio(t) ==
    /\ task[t].pc = "L289"
    /\ JOBS' = SetJob(task[t].job_id, "message", Msg("Adding audio..."))
    /\ task' = Goto(t, "L290")
    /\ UNCHANGED <<program, chooser, compress, planner, app, clip, env, files, calls, rd, resp>>

L290_progress_95(t) ==
    /\ task[t].pc = "L290"
    /\ JOBS' = SetJob(task[t].job_id, "progress", 95)
    /\ task' = Goto(t, "L293")
    /\ UNCHANGED <<program, chooser, compress, planner, app, clip, env, files, calls, rd, resp>>

\* merge_audio_video(concat_path, audio_path, final_path), api.py 213-224
L293_merge_audio_video(t, ok) ==
    /\ task[t].pc = "L293"
    /\ ok => /\ Has(files, ConcatPath(task[t].job_id))
             /\ Has(files, AudioPath(task[t].job_id))
             /\ files[AudioPath(task[t].job_id)].kind = "audio"
    /\ calls' = Log(t, "merge_audio_video", ConcatPath(task[t].job_id))
    /\ files' = IF ok
                THEN Put(files, FinalPath(task[t].job_id),
                         FinalContent(files[ConcatPath(task[t].job_id)],
                                      files[AudioPath(task[t].job_id)]))
                ELSE files
    /\ task' = IF ok THEN Goto(t, "L296") ELSE Raise(t, "merge_audio_video failed")
    /\ UNCHANGED <<program, chooser, compress, planner, app, clip, env, JOBS, rd, resp>>

\* Done!  (api.py 296-299)
L296_status_completed(t) ==
    /\ task[t].pc = "L296"
    /\ JOBS' = SetJob(task[t].job_id, "status", "completed")
    /\ task' = Goto(t, "L297")
    /\ UNCHANGED <<program, chooser, compress, planner, app, clip, env, files, calls, rd, resp>>

L297_progress_100(t) ==
    /\ task[t].pc = "L297"
    /\ JOBS' = SetJob(task[t].job_id, "progress", 100)
    /\ task' = Goto(t, "L298")
    /\ UNCHANGED <<program, chooser, compress, planner, app, clip, env, files, calls, rd, resp>>

L298_message_ready(t) ==
    /\ task[t].pc = "L298"
    /\ JOBS' = SetJob(task[t].job_id, "message", Msg("Video ready!"))
    /\ task' = Goto(t, "L299")
    /\ UNCHANGED <<program, chooser, compress, planner, app, clip, env, files, calls, rd, resp>>

L299_video_path(t) ==
    /\ task[t].pc = "L299"
    /\ JOBS' = SetJob(task[t].job_id, "video_path", FinalPath(task[t].job_id))
    /\ task' = [task EXCEPT ![t].pc = "L302", ![t].k = 0]
    /\ UNCHANGED <<program, chooser, compress, planner, app, clip, env, files, calls, rd, resp>>

\* Cleanup, still inside the try block (api.py 302-304): one clip per step;
\* os.remove may raise (OSError)
L302_remove_clip(t, ok) ==
    /\ task[t].pc = "L302"
    /\ task[t].k < Len(task[t].video_clips)
    /\ ~ok => Has(files, task[t].video_clips[task[t].k + 1])
    /\ files' = IF ok THEN Remove(files, task[t].video_clips[task[t].k + 1]) ELSE files
    /\ task' = IF ok THEN [task EXCEPT ![t].k = task[t].k + 1]
               ELSE Raise(t, "os.remove failed")
    /\ UNCHANGED <<program, chooser, compress, planner, app, clip, env, JOBS, calls, rd, resp>>

\* api.py 305-306, after the loop; the function returns after it
L305_remove_concat(t, ok) ==
    /\ task[t].pc = "L302"
    /\ task[t].k >= Len(task[t].video_clips)
    /\ ~ok => Has(files, ConcatPath(task[t].job_id))
    /\ files' = IF ok THEN Remove(files, ConcatPath(task[t].job_id)) ELSE files
    /\ task' = IF ok THEN Goto(t, "done") ELSE Raise(t, "os.remove failed")
    /\ UNCHANGED <<program, chooser, compress, planner, app, clip, env, JOBS, calls, rd, resp>>

\* a handler that also puts the progress back to 0
L309_failed_reset_progress(t) ==
    /\ task[t].pc = "L309"
    /\ JOBS' = Put(JOBS, task[t].job_id,
                   Put(Put(JOBS[task[t].job_id], "status", "failed"), "progress", 0))
    /\ task' = Goto(t, "L310")
    /\ UNCHANGED <<program, chooser, compress, planner, app, clip, env, files, calls, rd, resp>>

\* except Exception as e:  (api.py 308-310)
L309_status_failed(t) ==
    /\ task[t].pc = "L309"
    /\ JOBS' = SetJob(task[t].job_id, "status", "failed")
    /\ task' = Goto(t, "L310")
    /\ UNCHANGED <<program, chooser, compress, planner, app, clip, env, files, calls, rd, resp>>

L310_error(t) ==
    /\ task[t].pc = "L310"
    /\ JOBS' = SetJob(task[t].job_id, "error", task[t].exc)
    /\ task' = Goto(t, "done")
    /\ UNCHANGED <<program, chooser, compress, planner, app, clip, env, files, calls, rd, resp>>

(***************************************************************************)
(* get_status (GET /status/{job_id}), api.py 394-407.  The handler runs on *)
(* a worker thread beside the background task: each job.get is a read of   *)
(* its own.                                                                *)
(***************************************************************************)
NoResponse == [op |-> "none"]

G397_get_status(j) ==
    /\ program = "api"
    /\ rd = Idle
    /\ IF Has(JOBS, j)
       THEN /\ rd' = [op |-> "get_status", pc |-> "G403", job_id |-> j]
            /\ resp' = NoResponse
       ELSE /\ rd' = Idle
            /\ resp' = [op |-> "get_status", code |-> 404, detail |-> "Job not found"]
    /\ UNCHANGED <<program, chooser, compress, planner, app, clip, env, JOBS, task, files, calls>>

G403_read_status ==
    /\ rd.op = "get_status" /\ rd.pc = "G403"
    /\ rd' = Put(Put(rd, "status", Get(JOBS[rd.job_id], "status")), "pc", "G404")
    /\ UNCHANGED <<program, chooser, compress, planner, app, clip, env, JOBS, task, files, calls, resp>>

G404_read_progress ==
    /\ rd.op = "get_status" /\ rd.pc = "G404"
    /\ rd' = Put(Put(rd, "progress", Get(JOBS[rd.job_id], "progress")), "pc", "G405")
    /\ UNCHANGED <<program, chooser, compress, planner, app, clip, env, JOBS, task, files, calls, resp>>

G405_read_message ==
    /\ rd.op = "get_status" /\ rd.pc = "G405"
    /\ rd' = Put(Put(rd, "message", Get(JOBS[rd.job_id], "message")), "pc", "G406")
    /\ UNCHANGED <<program, chooser, compress, planner, app, clip, env, JOBS, task, files, calls, resp>>

\* the last read, and the JobStatus returned: video_url is never passed
G406_read_error ==
    /\ rd.op = "get_status" /\ rd.pc = "G406"
    /\ resp' = [op |-> "get_status", code |-> 200, job_id |-> rd.job_id,
                status |-> rd.status, progress |-> rd.progress, message |-> rd.message,
                video_url |-> NoneValue, error |-> Get(JOBS[rd.job_id], "error")]
    /\ rd' = Idle
    /\ UNCHANGED <<program, chooser, compress, planner, app, clip, env, JOBS, task, files, calls>>

(***************************************************************************)
(* download_video (GET /download/{job_id}), api.py 409-427.                *)
(***************************************************************************)
D412_download_video(j) ==
    /\ program = "api"
    /\ rd = Idle
    /\ IF Has(JOBS, j)
       THEN /\ rd' = [op |-> "download_video", pc |-> "D416", job_id |-> j]
            /\ resp' = NoResponse
       ELSE /\ rd' = Idle
            /\ resp' = [op |-> "download_video", code |-> 404, detail |-> "Job not found"]
    /\ UNCHANGED <<program, chooser, compress, planner, app, clip, env, JOBS, task, files, calls>>

\* a handler that goes on to the file whatever the status is
D416_any_status ==
    /\ rd.op = "download_video" /\ rd.pc = "D416"
    /\ rd' = Put(rd, "pc", "D419")
    /\ resp' = resp
    /\ UNCHANGED <<program, chooser, compress, planner, app, clip, env, JOBS, task, files, calls>>

D416_check_status ==
    /\ rd.op = "download_video" /\ rd.pc = "D416"
    /\ IF Get(JOBS[rd.job_id], "status") # "completed"
       THEN /\ rd' = Idle
            /\ resp' = [op |-> "download_video", code |-> 400, job_id |-> rd.job_id,
                        detail |-> "Job not ready",
                        status |-> Get(JOBS[rd.job_id], "status")]
       ELSE /\ rd' = Put(rd, "pc", "D419")
            /\ resp' = resp
    /\ UNCHANGED <<program, chooser, compress, planner, app, clip, env, JOBS, task, files, calls>>

D419_video_path ==
    /\ rd.op = "download_video" /\ rd.pc = "D419"
    /\ rd' = Idle
    /\ resp' = IF Has(JOBS[rd.job_id], "video_path") /\ Has(files, JOBS[rd.job_id].video_path)
               THEN [op |-> "download_video", code |-> 200, job_id |-> rd.job_id,
                     file |-> files[JOBS[rd.job_id].video_path]]
               ELSE [op |-> "download_video", code |-> 404, job_id |-> rd.job_id,
                     detail |-> "Video file not found"]
    /\ UNCHANGED <<program, chooser, compress, planner, app, clip, env, JOBS, task, files, calls>>

(***************************************************************************)
(* app.py: generate_video_clip (342-375) and its constants.                *)
(***************************************************************************)
VALID_DURATIONS == <<6, 8, 10, 12, 14, 16, 18, 20>>

LTX_MODELS(label) ==
    CASE label = "Fast (Recommended)" -> "ltx-2-fast"
      [] label = "Pro (Higher Quality)" -> "ltx-2-pro"
      [] OTHER -> "ltx-2-fast"

LTX_RESOLUTIONS(label) ==
    CASE label = "1080p (1920x1080)" -> "1920x1080"
      [] label = "1440p (2560x1440)" -> "2560x1440"
      [] label = "4K (3840x2160)" -> "3840x2160"
      [] OTHER -> "1920x1080"

LTX_FPS_OPTIONS == {25, 50}

Abs(x) == IF x < 0 THEN -x ELSE x

Min2(x, y) == IF x <= y THEN x ELSE y

InCatalog(d) == \E n \in 1..Len(VALID_DURATIONS) : VALID_DURATIONS[n] = d

\* a scan that also replaces its candidate by an equally near element
CloserOrEqual(x, best, duration) == Abs(x - duration) <= Abs(best - duration)

\* min(..., key=lambda x: abs(x - duration)) replaces its candidate only by an
\* element whose key is strictly smaller
Closer(x, best, duration) == Abs(x - duration) < Abs(best - duration)

RECURSIVE MinByDistance(_, _, _)
\* min(VALID_DURATIONS, key=...): the scan from element n with the candidate best
MinByDistance(duration, n, best) ==
    IF n > Len(VALID_DURATIONS) THEN best
    ELSE MinByDistance(duration, n + 1,
                       IF Closer(VALID_DURATIONS[n], best, duration)
                       THEN VALID_DURATIONS[n] ELSE best)

\* app.py 344-345
Quantize(duration) ==
    IF ~InCatalog(duration) THEN MinByDistance(duration, 2, VALID_DURATIONS[1])
    ELSE duration

\* a limit that looks at the model alone
CapAppliesProOnly(settings) == LTX_MODELS(settings.model) = "ltx-2-pro"

\* app.py 352: the settings that limit a clip to 10 seconds
CapApplies(settings) ==
    \/ LTX_MODELS(settings.model) = "ltx-2-pro"
    \/ LTX_RESOLUTIONS(settings.resolution) # "1920x1080"
    \/ settings.fps = 50

\* app.py 344-353: the duration placed in the request
RequestDuration(duration, settings) ==
    IF CapApplies(settings) THEN Min2(Quantize(duration), 10) ELSE Quantize(duration)

NoImage == <<"none", 0>>

ImageUri(k) == <<"image", k>>

\* the url and the JSON body generate_video_clip posts (app.py 356-375)
ClipRequest(prompt, duration, settings, image_uri) ==
    IF image_uri # NoImage
    THEN [url |-> "image-to-video", image_uri |-> image_uri, prompt |-> prompt,
          model |-> LTX_MODELS(settings.model),
          duration |-> RequestDuration(duration, settings),
          resolution |-> LTX_RESOLUTIONS(settings.resolution), fps |-> settings.fps]
    ELSE [url |-> "text-to-video", prompt |-> prompt,
          model |-> LTX_MODELS(settings.model),
          duration |-> RequestDuration(duration, settings),
          resolution |-> LTX_RESOLUTIONS(settings.resolution), fps |-> settings.fps,
          generate_audio |-> FALSE]

(***************************************************************************)
(* app.py main(): image choice (842-852) and prompt composition (854-863). *)
(* A text is the sequence of its parts.                                    *)
(***************************************************************************)
Part(s) == <<s, 0>>

\* str.strip() on the texts the model enters
Strip(s) == IF s = " " THEN "" ELSE s

\* a cycle that starts at the second image
CurrentImageOneBased(image_uris, image_mode, i, pick) ==
    IF Len(image_uris) = 0 THEN NoImage
    ELSE CASE image_mode = "cycle" -> image_uris[((i + 1) % Len(image_uris)) + 1]
           [] image_mode = "random" -> image_uris[pick]
           [] OTHER -> image_uris[1]

\* the image for clip i (0-based); pick is what random.choice returns
CurrentImage(image_uris, image_mode, i, pick) ==
    IF Len(image_uris) = 0 THEN NoImage
    ELSE CASE image_mode = "cycle" -> image_uris[(i % Len(image_uris)) + 1]
           [] image_mode = "random" -> image_uris[pick]
           [] image_mode = "first_only" -> image_uris[1]
           [] OTHER -> image_uris[1]

\* app.py 858-859
WithStyleNotes(full_prompt, style_notes) ==
    IF style_notes # "" /\ Strip(style_notes) # ""
    THEN <<Part(Strip(style_notes)), Part(". ")>> \o full_prompt
    ELSE full_prompt

\* app.py 862-863
WithImageDirection(full_prompt, current_image_uri, image_direction) ==
    IF current_image_uri # NoImage /\ image_direction # ""
    THEN <<Part(image_direction), Part(". ")>> \o full_prompt
    ELSE full_prompt

\* app.py 855-863
FullPrompt(prompt, style_notes, image_direction, current_image_uri) ==
    WithImageDirection(WithStyleNotes(<<prompt>>, style_notes),
                       current_image_uri, image_direction)

(***************************************************************************)
(* app.py main(), 727-915: the pipeline run by one press of Generate.      *)
(***************************************************************************)
AppDir == "tmp_dir"

UploadedAudio == AudioPath("upload")

\* the settings the model enters in the sidebar
AppSettings ==
    {[model |-> m, resolution |-> "1080p (1920x1080)", fps |-> 25] :
        m \in {"Fast (Recommended)", "Pro (Higher Quality)"}}

\* the scene durations the planner's response carries
PlanDurations == {11, 20}

\* the plans of n scenes: element k is {"prompt": ..., "duration": ...}
Plans(n) ==
    {[k \in 1..n |-> [prompt |-> SceneText(k), duration |-> d[k]]] :
        d \in [1..n -> PlanDurations]}

\* generate_scene_prompts (app.py 221-340) on the planner's response:
\*   "error"      the HTTP call raises
\*   "bad json"   json.loads raises on the content (after the fence is cut)
\*   "plan"       a JSON array of scene objects
\*   "no duration" a JSON array whose first object lacks "duration"
AppPlannerResponses ==
    {[kind |-> "error", plan |-> <<>>], [kind |-> "bad json", plan |-> <<>>],
     [kind |-> "no duration", plan |-> <<[prompt |-> SceneText(1)]>>]}
    \cup {[kind |-> "plan", plan |-> pl] : pl \in UNION {Plans(n) : n \in 0..MaxScenes}}

NoApp ==
    [pc |-> "idle", settings |-> [model |-> "", resolution |-> "", fps |-> 0],
     style_notes |-> "", image_uris |-> <<>>, image_mode |-> "cycle",
     image_direction |-> "", progress |-> 0, status_text |-> Msg(""),
     prompts |-> <<>>, i |-> 0, clip_paths |-> <<>>, exc |-> "", error |-> ""]

\* except Exception as e (app.py 907)
AppRaise(e) == [app EXCEPT !.pc = "A907", !.exc = e]

\* int(20 + (60 * (i / num_clips)))  (app.py 836-837); the float sum truncates to
\* 20 + floor(60*i/n) for every 0 <= i < n < 400
AppClipProgress(i, n) == 20 + ((60 * i) \div n)

AppAfterClip(i, n) == IF i < n THEN "A837" ELSE "A877"

\* app.py 484-496: without both keys main() shows an error and returns
A484_missing_keys ==
    /\ program = "app"
    /\ app.pc = "idle"
    /\ ~(env.openai /\ env.ltx)
    /\ app' = [app EXCEPT !.pc = "done", !.error = "Missing API keys"]
    /\ UNCHANGED <<program, chooser, compress, planner, env, JOBS, task, files, calls, rd, resp, clip>>

\* app.py 727-794: the audio is saved and probed, Generate is pressed, the
\* progress bar is created at 0.  images is the number of uploaded images.
A784_generate(settings, notes, images, mode, direction) ==
    /\ program = "app"
    /\ app.pc = "idle"
    /\ env.openai /\ env.ltx
    /\ images <= 1 => mode = "cycle"
    /\ images = 0 => direction = ""
    /\ files' = Put(files, UploadedAudio, AudioContent)
    /\ app' = [NoApp EXCEPT !.pc = "A799", !.settings = settings, !.style_notes = notes,
                            !.image_uris = [k \in 1..images |-> ImageUri(k - 1)],
                            !.image_mode = mode, !.image_direction = direction,
                            !.progress = 0]
    /\ UNCHANGED <<program, chooser, compress, planner, env, JOBS, task, calls, rd, resp, clip>>

A799_progress_10 ==
    /\ app.pc = "A799"
    /\ app' = [app EXCEPT !.pc = "A801", !.progress = 10,
                          !.status_text = Msg("Step 1/4: Transcribing audio...")]
    /\ UNCHANGED <<program, chooser, compress, planner, env, JOBS, task, files, calls, rd, resp, clip>>

A801_transcribe_audio(ok) ==
    /\ app.pc = "A801"
    /\ calls' = Log(0, "transcribe_audio", UploadedAudio)
    /\ app' = IF ok THEN [app EXCEPT !.pc = "A809"] ELSE AppRaise("transcribe_audio failed")
    /\ UNCHANGED <<program, chooser, compress, planner, env, JOBS, task, files, rd, resp, clip>>

A809_progress_20 ==
    /\ app.pc = "A809"
    /\ app' = [app EXCEPT !.pc = "A811", !.progress = 20,
                          !.status_text = Msg("Step 2/4: Generating scene descriptions...")]
    /\ UNCHANGED <<program, chooser, compress, planner, env, JOBS, task, files, calls, rd, resp, clip>>

\* prompts = generate_scene_prompts(...), the expander that reads p['duration']
\* and p['prompt'] of every scene (821-825), the status text and the loop's
\* first test (828-835)
A811_generate_scene_prompts(r) ==
    /\ app.pc = "A811"
    /\ calls' = Log(0, "generate_scene_prompts", "transcript")
    /\ app' = CASE r.kind = "error" -> AppRaise("generate_scene_prompts failed")
                [] r.kind = "bad json" -> AppRaise("JSONDecodeError")
                [] r.kind = "no duration" -> AppRaise("KeyError: 'duration'")
                [] r.kind = "plan" ->
                     [app EXCEPT !.prompts = r.plan, !.clip_paths = <<>>, !.i = 0,
                                 !.status_text = Msg("Step 3/4: Generating video clips..."),
                                 !.pc = AppAfterClip(0, Len(r.plan))]
    /\ UNCHANGED <<program, chooser, compress, planner, env, JOBS, task, files, rd, resp, clip>>

A837_progress_clip ==
    /\ app.pc = "A837"
    /\ app' = [app EXCEPT !.pc = "A865",
                          !.progress = AppClipProgress(app.i, Len(app.prompts)),
                          !.status_text = ClipMsg(app.i, Len(app.prompts))]
    /\ UNCHANGED <<program, chooser, compress, planner, env, JOBS, task, files, calls, rd, resp, clip>>

\* the request main() sends for clip i when random.choice returns image pick
AppClipRequest(i, pick) ==
    ClipRequest(FullPrompt(app.prompts[i + 1].prompt, app.style_notes, app.image_direction,
                           CurrentImage(app.image_uris, app.image_mode, i, pick)),
                app.prompts[i + 1].duration, app.settings,
                CurrentImage(app.image_uris, app.image_mode, i, pick))

\* clip_paths.append(clip_path) and the loop's next test
AppAppendClip(path) ==
    [app EXCEPT !.clip_paths = Append(app.clip_paths, path), !.i = app.i + 1,
                !.pc = AppAfterClip(app.i + 1, Len(app.prompts))]

\* app.py 840-873: image choice, prompt composition, generate_video_clip (which
\* raises, or streams the response into clip_path), append
A865_generate_video_clip(pick, ok) ==
    /\ app.pc = "A865"
    /\ pick \in 1..Len(app.image_uris) \/ (pick = 1 /\ Len(app.image_uris) = 0)
    /\ app.image_mode # "random" => pick = 1
    /\ calls' = Log(0, "generate_video_clip", [i |-> app.i, request |-> AppClipRequest(app.i, pick)])
    /\ files' = IF ok THEN Put(files, ClipPath(AppDir, app.i),
                               ClipContent(AppClipRequest(app.i, pick).prompt))
                ELSE files
    /\ app' = IF ok THEN AppAppendClip(ClipPath(AppDir, app.i))
              ELSE AppRaise("generate_video_clip failed")
    /\ UNCHANGED <<program, chooser, compress, planner, env, JOBS, task, rd, resp, clip>>

A877_progress_85 ==
    /\ app.pc = "A877"
    /\ app' = [app EXCEPT !.pc = "A880", !.progress = 85,
                          !.status_text = Msg("Step 4/4: Assembling final video...")]
    /\ UNCHANGED <<program, chooser, compress, planner, env, JOBS, task, files, calls, rd, resp, clip>>

\* concatenate_videos(clip_paths, concat_path), app.py 400-415
A880_concatenate_videos(ok) ==
    /\ app.pc = "A880"
    /\ ok => CanConcat(app.clip_paths)
    /\ calls' = Log(0, "concatenate_videos", ConcatInput(app.clip_paths))
    /\ files' = IF ok
                THEN Put(files, ConcatPath(AppDir),
                         ConcatContent(ConcatInput(app.clip_paths).contents))
                ELSE Put(files, ListPath(AppDir), [kind |-> "list"])
    /\ app' = IF ok THEN [app EXCEPT !.pc = "A883"] ELSE AppRaise("concatenate_videos failed")
    /\ UNCHANGED <<program, chooser, compress, planner, env, JOBS, task, rd, resp, clip>>

\* merge_audio(concat_path, audio_path, output_path), app.py 417-431
A883_merge_audio(ok) ==
    /\ app.pc = "A883"
    /\ ok => Has(files, ConcatPath(AppDir)) /\ Has(files, UploadedAudio)
    /\ calls' = Log(0, "merge_audio", ConcatPath(AppDir))
    /\ files' = IF ok
                THEN Put(files, FinalPath(AppDir),
                         FinalContent(files[ConcatPath(AppDir)], files[UploadedAudio]))
                ELSE files
    /\ app' = IF ok THEN [app EXCEPT !.pc = "A885"] ELSE AppRaise("merge_audio failed")
    /\ UNCHANGED <<program, chooser, compress, planner, env, JOBS, task, rd, resp, clip>>

\* app.py 885-905: the bar at 100 and the video offered for download
A885_progress_100 ==
    /\ app.pc = "A885"
    /\ app' = [app EXCEPT !.pc = "A911", !.progress = 100, !.status_text = Msg("Complete!")]
    /\ UNCHANGED <<program, chooser, compress, planner, env, JOBS, task, files, calls, rd, resp, clip>>

\* st.error(f"Error: {str(e)}")  (app.py 907-909)
A907_error ==
    /\ app.pc = "A907"
    /\ app' = [app EXCEPT !.pc = "A911", !.error = app.exc]
    /\ UNCHANGED <<program, chooser, compress, planner, env, JOBS, task, files, calls, rd, resp, clip>>

\* the TemporaryDirectory is left (790) and the uploaded audio unlinked (911-915)
A911_cleanup ==
    /\ app.pc = "A911"
    /\ files' = EmptyDict
    /\ app' = [app EXCEPT !.pc = "done"]
    /\ UNCHANGED <<program, chooser, compress, planner, env, JOBS, task, calls, rd, resp, clip>>

(***************************************************************************)
(* One clip of main()'s loop on its own: the prompt composition (855-863)  *)
(* and generate_video_clip's request (342-375), for inputs drawn by        *)
(* InitClip.                                                               *)
(***************************************************************************)
\* every combination the sidebar offers
AllSettings ==
    {[model |-> m, resolution |-> r, fps |-> f] :
        m \in {"Fast (Recommended)", "Pro (Higher Quality)"},
        r \in {"1080p (1920x1080)", "1440p (2560x1440)", "4K (3840x2160)"},
        f \in LTX_FPS_OPTIONS}

NoClip ==
    [pc |-> "idle", prompt |-> SceneText(1), duration |-> 0,
     settings |-> [model |-> "", resolution |-> "", fps |-> 0], style_notes |-> "",
     image_direction |-> "", image_uri |-> NoImage, full_prompt |-> <<>>,
     request |-> NoneValue]

\* The direction text area exists only when images are uploaded, and then every
\* clip has an image.
ClipInputs ==
    {[pc |-> "compose", prompt |-> SceneText(1), duration |-> d, settings |-> st,
      style_notes |-> notes, image_direction |-> direction, image_uri |-> img,
      full_prompt |-> <<>>, request |-> NoneValue] :
        d \in 0..MaxDuration, st \in AllSettings, notes \in {"", " ", "moody noir"},
        direction \in {"", "slow zoom in"}, img \in {NoImage, ImageUri(0)}}

C855_compose_prompt ==
    /\ clip.pc = "compose"
    /\ clip' = [clip EXCEPT !.pc = "generate",
                            !.full_prompt = FullPrompt(clip.prompt, clip.style_notes,
                                                       clip.image_direction, clip.image_uri)]
    /\ UNCHANGED <<program, chooser, compress, planner, env, JOBS, task, files, calls, rd, resp, app>>

C865_generate_video_clip ==
    /\ clip.pc = "generate"
    /\ clip' = [clip EXCEPT !.pc = "sent",
                            !.request = ClipRequest(clip.full_prompt, clip.duration,
                                                    clip.settings, clip.image_uri)]
    /\ UNCHANGED <<program, chooser, compress, planner, env, JOBS, task, files, calls, rd, resp, app>>

(***************************************************************************)
(* app.py generate_scene_prompts (232-241): the number of clips asked of   *)
(* the planner.  The multipliers 0.5, 1.0, 1.5 and 2.0 are kept as halves. *)
(***************************************************************************)
Max2(x, y) == IF x >= y THEN x ELSE y

\* the density labels of the sidebar, and a label the dict does not hold
Densities ==
    {"Sparse (longer shots)", "Balanced", "Dense (more shots)",
     "Very Dense (rapid cuts)", "Custom"}

\* density_multiplier.get(settings.get('density', 'Balanced'), 1.0), doubled
density_multiplier(density) ==
    CASE density = "Sparse (longer shots)" -> 1
      [] density = "Balanced" -> 2
      [] density = "Dense (more shots)" -> 3
      [] density = "Very Dense (rapid cuts)" -> 4
      [] OTHER -> 2

\* base_clips = max(4, min(30, int(duration / 12)))
BaseClips(duration) == Max2(4, Min2(30, duration \div 12))

\* int(base_clips * multiplier): int() drops the half
ScaledClips(base_clips, density) == (base_clips * density_multiplier(density)) \div 2

\* a count that is scaled and left as it is
UnclampedClips(num_clips) == num_clips

\* num_clips = max(4, min(40, num_clips))
ClampClips(num_clips) == Max2(4, Min2(40, num_clips))

NoPlanner == [pc |-> "idle", duration |-> 0, density |-> "", base_clips |-> 0, num_clips |-> 0]

PlannerInputs ==
    {[NoPlanner EXCEPT !.pc = "P239", !.duration = d, !.density = density] :
        d \in 0..MaxTotalDuration, density \in Densities}

P239_base_clips ==
    /\ planner.pc = "P239"
    /\ planner' = [planner EXCEPT !.pc = "P240", !.base_clips = BaseClips(planner.duration)]
    /\ UNCHANGED <<program, chooser, compress, env, JOBS, task, files, calls, rd, resp, app, clip>>

P240_num_clips ==
    /\ planner.pc = "P240"
    /\ planner' = [planner EXCEPT !.pc = "P241",
                                  !.num_clips = ScaledClips(planner.base_clips, planner.density)]
    /\ UNCHANGED <<program, chooser, compress, env, JOBS, task, files, calls, rd, resp, app, clip>>

P241_clamp ==
    /\ planner.pc = "P241"
    /\ planner' = [planner EXCEPT !.pc = "done", !.num_clips = ClampClips(planner.num_clips)]
    /\ UNCHANGED <<program, chooser, compress, env, JOBS, task, files, calls, rd, resp, app, clip>>

(***************************************************************************)
(* app.py main(), 835-852: the clip loop's choice of a reference image, on *)
(* its own, for image lists and plan lengths drawn by InitImages.          *)
(***************************************************************************)
NoImages ==
    [pc |-> "idle", image_uris |-> <<>>, image_mode |-> "cycle", num_clips |-> 0,
     i |-> 0, assigned |-> <<>>]

\* the radio of 641-653 is shown only with more than one image
ImagesInputs ==
    {[NoImages EXCEPT !.pc = "M835", !.image_uris = [k \in 1..n |-> ImageUri(k - 1)],
                      !.image_mode = mode, !.num_clips = clips] :
        n \in 0..MaxImages, mode \in {"cycle", "random", "first_only"}, clips \in 0..MaxPlan}

\* one iteration of `for i, prompt_data in enumerate(prompts)`: the image of
\* clip i is chosen (842-852) and noted
M842_current_image(pick) ==
    /\ chooser.pc = "M835"
    /\ chooser.i < chooser.num_clips
    /\ pick \in 1..Len(chooser.image_uris) \/ (pick = 1 /\ Len(chooser.image_uris) = 0)
    /\ chooser.image_mode # "random" => pick = 1
    /\ chooser' = [chooser EXCEPT
                      !.assigned = Append(chooser.assigned,
                                          CurrentImage(chooser.image_uris,
                                                       chooser.image_mode, chooser.i, pick)),
                      !.i = chooser.i + 1]
    /\ UNCHANGED <<program, compress, env, JOBS, task, files, calls, rd, resp, app, clip, planner>>

\* the loop ends
M835_loop_end ==
    /\ chooser.pc = "M835"
    /\ chooser.i >= chooser.num_clips
    /\ chooser' = [chooser EXCEPT !.pc = "done"]
    /\ UNCHANGED <<program, compress, env, JOBS, task, files, calls, rd, resp, app, clip, planner>>

(***************************************************************************)
(* app.py compress_audio_for_whisper (127-169), for file sizes drawn by    *)
(* InitCompress and ffprobe results drawn at the call.  Durations are in   *)
(* whole seconds.                                                          *)
(***************************************************************************)
max_size_mb == 24

\* Target ~20MB to leave headroom (in bits)
target_size_bits == 20 * 1024 * 1024 * 8

\* file sizes in MB around the limit
FileSizes == {1, 24, 25, 100}

\* what ffprobe gives: a duration, or no usable output (the run or float() raises)
ProbeResults ==
    {[ok |-> FALSE, seconds |-> 0]} \cup {[ok |-> TRUE, seconds |-> d] : d \in 0..MaxProbe}

\* int(target_size_bits / duration / 1000) for a duration above 0
TargetBitrate(duration) == target_size_bits \div (duration * 1000)

\* max(32, min(128, target_bitrate))
ClampBitrate(target_bitrate) == Max2(32, Min2(128, target_bitrate))

NoCompress ==
    [pc |-> "idle", file_size_mb |-> 0, duration |-> 0, target_bitrate |-> 0,
     exc |-> "", result |-> ""]

\* if file_size_mb <= max_size_mb: return audio_path
W131_size_check ==
    /\ compress.pc = "W131"
    /\ compress' = IF compress.file_size_mb <= max_size_mb
                   THEN [compress EXCEPT !.pc = "done", !.result = "audio_path"]
                   ELSE [compress EXCEPT !.pc = "W146"]
    /\ UNCHANGED <<program, chooser, env, JOBS, task, files, calls, rd, resp, app, clip, planner>>

\* the try block of 146-150: the probed duration, or 1200 when anything raises
W146_probe_duration(p) ==
    /\ compress.pc = "W146"
    /\ compress' = [compress EXCEPT !.pc = "W154",
                                    !.duration = IF p.ok THEN p.seconds ELSE 1200]
    /\ UNCHANGED <<program, chooser, env, JOBS, task, files, calls, rd, resp, app, clip, planner>>

\* target_bitrate = int(target_size_bits / duration / 1000): the float division
\* raises ZeroDivisionError for a duration of 0, outside any try block
W154_target_bitrate ==
    /\ compress.pc = "W154"
    /\ compress' = IF compress.duration = 0
                   THEN [compress EXCEPT !.pc = "done", !.exc = "ZeroDivisionError"]
                   ELSE [compress EXCEPT !.pc = "W155",
                                         !.target_bitrate = TargetBitrate(compress.duration)]
    /\ UNCHANGED <<program, chooser, env, JOBS, task, files, calls, rd, resp, app, clip, planner>>

W155_clamp ==
    /\ compress.pc = "W155"
    /\ compress' = [compress EXCEPT !.pc = "W166",
                                    !.target_bitrate = ClampBitrate(compress.target_bitrate)]
    /\ UNCHANGED <<program, chooser, env, JOBS, task, files, calls, rd, resp, app, clip, planner>>

\* ffmpeg runs with -b:a {target_bitrate}k; a failed run returns the original
W166_ffmpeg(ok) ==
    /\ compress.pc = "W166"
    /\ compress' = [compress EXCEPT !.pc = "done",
                                    !.result = IF ok THEN "compressed_path" ELSE "audio_path"]
    /\ UNCHANGED <<program, chooser, env, JOBS, task, files, calls, rd, resp, app, clip, planner>>

(***************************************************************************)
(* The specification.                                                      *)
(***************************************************************************)
vars == <<program, env, JOBS, task, files, calls, rd, resp, app, clip, planner, chooser, compress>>

Init ==
    /\ program \in {"api", "app"}
    /\ env \in [openai : BOOLEAN, ltx : BOOLEAN]
    /\ JOBS = EmptyDict
    /\ task = [t \in TaskIds |-> NoTask]
    /\ files = EmptyDict
    /\ calls = <<>>
    /\ rd = Idle
    /\ resp = NoResponse
    /\ app = NoApp
    /\ clip = NoClip
    /\ planner = NoPlanner
    /\ chooser = NoImages
    /\ compress = NoCompress

Next ==
    \/ \E t \in TaskIds, j \in JobIds, ov \in {NoOverride, OverrideText} : Submit(t, j, ov)
    \/ \E j \in JobIds, why \in {"no audio", "fetch", "decode"} : SubmitRejected(j, why)
    \/ \E t \in TaskIds : L233_status_processing(t)
    \/ \E t \in TaskIds : L234_progress_0(t)
    \/ \E t \in TaskIds : L236_api_keys(t)
    \/ \E t \in TaskIds : L245_message_transcribing(t)
    \/ \E t \in TaskIds : L246_progress_10(t)
    \/ \E t \in TaskIds : L248_prompt_override(t)
    \/ \E t \in TaskIds, ok \in BOOLEAN : L251_transcribe_audio(t, ok)
    \/ \E t \in TaskIds : L254_message_planning(t)
    \/ \E t \in TaskIds : L255_progress_20(t)
    \/ \E t \in TaskIds, r \in PlannerResponses : L261_generate_scene_prompts(t, r)
    \/ \E t \in TaskIds : L264_message_generating(t)
    \/ \E t \in TaskIds : L268_progress_clip(t)
    \/ \E t \in TaskIds : L269_message_clip(t)
    \/ \E t \in TaskIds, out \in {"raise", "no url", "url"} : L271_generate_video_clip(t, out)
    \/ \E t \in TaskIds, out \in {"raise", "partial", "ok"} : L278_download_clip(t, out)
    \/ \E t \in TaskIds : L282_message_assembling(t)
    \/ \E t \in TaskIds : L283_progress_85(t)
    \/ \E t \in TaskIds, ok \in BOOLEAN : L286_concatenate_videos(t, ok)
    \/ \E t \in TaskIds : L289_message_audio(t)
    \/ \E t \in TaskIds : L290_progress_95(t)
    \/ \E t \in TaskIds, ok \in BOOLEAN : L293_merge_audio_video(t, ok)
    \/ \E t \in TaskIds : L296_status_completed(t)
    \/ \E t \in TaskIds : L297_progress_100(t)
    \/ \E t \in TaskIds : L298_message_ready(t)
    \/ \E t \in TaskIds : L299_video_path(t)
    \/ \E t \in TaskIds, ok \in BOOLEAN : L302_remove_clip(t, ok)
    \/ \E t \in TaskIds, ok \in BOOLEAN : L305_remove_concat(t, ok)
    \/ \E t \in TaskIds : L309_status_failed(t)
    \/ \E t \in TaskIds : L310_error(t)
    \/ \E j \in JobIds : G397_get_status(j)
    \/ G403_read_status
    \/ G404_read_progress
    \/ G405_read_message
    \/ G406_read_error
    \/ \E j \in JobIds : D412_download_video(j)
    \/ D416_check_status
    \/ D419_video_path
    \/ A484_missing_keys
    \/ \E settings \in AppSettings, notes \in {"", "moody noir"}, images \in {0, 2},
          mode \in {"cycle", "random", "first_only"}, direction \in {"", "slow zoom in"} :
            A784_generate(settings, notes, images, mode, direction)
    \/ A799_progress_10
    \/ \E ok \in BOOLEAN : A801_transcribe_audio(ok)
    \/ A809_progress_20
    \/ \E r \in AppPlannerResponses : A811_generate_scene_prompts(r)
    \/ A837_progress_clip
    \/ \E pick \in 1..2, ok \in BOOLEAN : A865_generate_video_clip(pick, ok)
    \/ A877_progress_85
    \/ \E ok \in BOOLEAN : A880_concatenate_videos(ok)
    \/ \E ok \in BOOLEAN : A883_merge_audio(ok)
    \/ A885_progress_100
    \/ A907_error
    \/ A911_cleanup

Spec == Init /\ [][Next]_vars

\* a step of background task t other than download_file: a statement of the
\* function, or a call whose urlopen carries a timeout (api.py 116, 156, 190)
\* and so returns or raises
TimedStep(t) ==
    \/ L233_status_processing(t)
    \/ L234_progress_0(t)
    \/ L236_api_keys(t)
    \/ L245_message_transcribing(t)
    \/ L246_progress_10(t)
    \/ L248_prompt_override(t)
    \/ \E ok \in BOOLEAN : L251_transcribe_audio(t, ok)
    \/ L254_message_planning(t)
    \/ L255_progress_20(t)
    \/ \E r \in PlannerResponses : L261_generate_scene_prompts(t, r)
    \/ L264_message_generating(t)
    \/ L268_progress_clip(t)
    \/ L269_message_clip(t)
    \/ \E out \in {"raise", "no url", "url"} : L271_generate_video_clip(t, out)
    \/ L282_message_assembling(t)
    \/ L283_progress_85(t)
    \/ \E ok \in BOOLEAN : L286_concatenate_videos(t, ok)
    \/ L289_message_audio(t)
    \/ L290_progress_95(t)
    \/ \E ok \in BOOLEAN : L293_merge_audio_video(t, ok)
    \/ L296_status_completed(t)
    \/ L297_progress_100(t)
    \/ L298_message_ready(t)
    \/ L299_video_path(t)
    \/ \E ok \in BOOLEAN : L302_remove_clip(t, ok)
    \/ \E ok \in BOOLEAN : L305_remove_concat(t, ok)
    \/ L309_status_failed(t)
    \/ L310_error(t)

\* The thread pool runs a scheduled task, and every step of it that cannot
\* block is taken.  download_file is urlretrieve without a timeout (api.py
\* 194-196): nothing makes it return.
SpecFair == Init /\ [][Next]_vars /\ \A t \in TaskIds : WF_vars(TimedStep(t))

\* Two requests served by one process: two background tasks on the thread
\* pool, and two values the 8 hex digits of uuid4() can take.  Each request
\* carries a prompt_override and its task is followed on the path without
\* provider errors.
TwoTasks == {1, 2}

TwoJobIds == {"a", "b"}

InitTwo ==
    /\ program = "api"
    /\ env = [openai |-> TRUE, ltx |-> TRUE]
    /\ JOBS = EmptyDict
    /\ task = [t \in TwoTasks |-> NoTask]
    /\ files = EmptyDict
    /\ calls = <<>>
    /\ rd = Idle
    /\ resp = NoResponse
    /\ app = NoApp
    /\ clip = NoClip
    /\ planner = NoPlanner
    /\ chooser = NoImages
    /\ compress = NoCompress

NextTwo ==
    \/ \E t \in TwoTasks, j \in TwoJobIds : Submit(t, j, OverrideText)
    \/ \E j \in TwoJobIds : SubmitRejected(j, "no audio")
    \/ \E t \in TwoTasks : L233_status_processing(t)
    \/ \E t \in TwoTasks : L234_progress_0(t)
    \/ \E t \in TwoTasks : L236_api_keys(t)
    \/ \E t \in TwoTasks : L245_message_transcribing(t)
    \/ \E t \in TwoTasks : L246_progress_10(t)
    \/ \E t \in TwoTasks : L248_prompt_override(t)
    \/ \E t \in TwoTasks : L264_message_generating(t)
    \/ \E t \in TwoTasks : L268_progress_clip(t)
    \/ \E t \in TwoTasks : L269_message_clip(t)
    \/ \E t \in TwoTasks : L271_generate_video_clip(t, "url")
    \/ \E t \in TwoTasks : L278_download_clip(t, "ok")
    \/ \E t \in TwoTasks : L282_message_assembling(t)
    \/ \E t \in TwoTasks : L283_progress_85(t)
    \/ \E t \in TwoTasks, ok \in BOOLEAN : L286_concatenate_videos(t, ok)
    \/ \E t \in TwoTasks : L289_message_audio(t)
    \/ \E t \in TwoTasks : L290_progress_95(t)
    \/ \E t \in TwoTasks : L293_merge_audio_video(t, TRUE)
    \/ \E t \in TwoTasks : L296_status_completed(t)
    \/ \E t \in TwoTasks : L297_progress_100(t)
    \/ \E t \in TwoTasks : L298_message_ready(t)
    \/ \E t \in TwoTasks : L299_video_path(t)
    \/ \E t \in TwoTasks : L302_remove_clip(t, TRUE)
    \/ \E t \in TwoTasks : L305_remove_concat(t, TRUE)
    \/ \E t \in TwoTasks : L309_status_failed(t)
    \/ \E t \in TwoTasks : L310_error(t)

SpecTwo == InitTwo /\ [][NextTwo]_vars

InitClip ==
    /\ program = "clip"
    /\ env = [openai |-> TRUE, ltx |-> TRUE]
    /\ JOBS = EmptyDict
    /\ task = [t \in TaskIds |-> NoTask]
    /\ files = EmptyDict
    /\ calls = <<>>
    /\ rd = Idle
    /\ resp = NoResponse
    /\ app = NoApp
    /\ clip \in {c \in ClipInputs : c.image_direction # "" => c.image_uri # NoImage}
    /\ planner = NoPlanner
    /\ chooser = NoImages
    /\ compress = NoCompress

NextClip ==
    \/ C855_compose_prompt
    \/ C865_generate_video_clip

SpecClip == InitClip /\ [][NextClip]_vars

InitPlanner ==
    /\ program = "planner"
    /\ env = [openai |-> TRUE, ltx |-> TRUE]
    /\ JOBS = EmptyDict
    /\ task = [t \in TaskIds |-> NoTask]
    /\ files = EmptyDict
    /\ calls = <<>>
    /\ rd = Idle
    /\ resp = NoResponse
    /\ app = NoApp
    /\ clip = NoClip
    /\ planner \in PlannerInputs
    /\ chooser = NoImages
    /\ compress = NoCompress

NextPlanner ==
    \/ P239_base_clips
    \/ P240_num_clips
    \/ P241_clamp

SpecPlanner == InitPlanner /\ [][NextPlanner]_vars

InitImages ==
    /\ program = "images"
    /\ env = [openai |-> TRUE, ltx |-> TRUE]
    /\ JOBS = EmptyDict
    /\ task = [t \in TaskIds |-> NoTask]
    /\ files = EmptyDict
    /\ calls = <<>>
    /\ rd = Idle
    /\ resp = NoResponse
    /\ app = NoApp
    /\ clip = NoClip
    /\ planner = NoPlanner
    /\ chooser \in {m \in ImagesInputs : Len(m.image_uris) <= 1 => m.image_mode = "cycle"}
    /\ compress = NoCompress

NextImages ==
    \/ \E pick \in 1..MaxImages : M842_current_image(pick)
    \/ M835_loop_end

SpecImages == InitImages /\ [][NextImages]_vars

InitCompress ==
    /\ program = "compress"
    /\ env = [openai |-> TRUE, ltx |-> TRUE]
    /\ JOBS = EmptyDict
    /\ task = [t \in TaskIds |-> NoTask]
    /\ files = EmptyDict
    /\ calls = <<>>
    /\ rd = Idle
    /\ resp = NoResponse
    /\ app = NoApp
    /\ clip = NoClip
    /\ planner = NoPlanner
    /\ chooser = NoImages
    /\ compress \in {[NoCompress EXCEPT !.pc = "W131", !.file_size_mb = mb] : mb \in FileSizes}

NextCompress ==
    \/ W131_size_check
    \/ \E p \in ProbeResults : W146_probe_duration(p)
    \/ W154_target_bitrate
    \/ W155_clamp
    \/ \E ok \in BOOLEAN : W166_ffmpeg(ok)

SpecCompress == InitCompress /\ [][NextCompress]_vars

(***************************************************************************)
(* Properties.                                                             *)
(***************************************************************************)
\* the calls of concatenate_videos made so far
ConcatCalls == {n \in 1..Len(calls) : calls[n].op = "concatenate_videos"}

\* the number of scenes of the plan the running program holds
PlanLength(t) == IF program = "api" THEN Len(task[t].scenes) ELSE Len(app.prompts)

ClipErrors == {"generate_video_clip failed", "download_file failed"}

AfterFailure == {"L309", "L310", "done"}

\* C1: concatenate_videos is only called with a complete clip set.  Whenever it
\* is called, the list holds exactly one clip file per scene of the plan; and
\* once a clip generation or download has failed, the job is on its way to
\* failed (and is failed when the task ends), Assembling is not entered
\* (message and progress stay those of clip generation) and concatenate_videos
\* is not called.  The same holds of main() in app.py.
C1_CompleteClipSet ==
    /\ \A n \in ConcatCalls :
          /\ Len(calls[n].arg.paths) = PlanLength(calls[n].task)
          /\ \A k \in 1..Len(calls[n].arg.paths) :
                /\ Has(calls[n].arg.contents[k], "kind")
                /\ calls[n].arg.contents[k].kind = "clip"
    /\ \A t \in TaskIds :
          task[t].exc \in ClipErrors =>
             /\ ConcatCalls = {}
             /\ task[t].pc \in AfterFailure
             /\ JOBS[task[t].job_id].message = ClipMsg(task[t].i, Len(task[t].scenes))
             /\ JOBS[task[t].job_id].progress < 85
             /\ task[t].pc = "done" => JOBS[task[t].job_id].status = "failed"
    /\ app.exc \in ClipErrors =>
          /\ ConcatCalls = {}
          /\ app.pc \in {"A907", "A911", "done"}
          /\ app.status_text = ClipMsg(app.i, Len(app.prompts))
          /\ app.pc # "A907" => app.error = app.exc

\* C1 witness: the second clip's download failed after the first clip was
\* stored, and the job ended failed
C1_Witness ==
    \E t \in TaskIds :
       /\ task[t].pc = "done"
       /\ task[t].exc = "download_file failed"
       /\ Len(task[t].video_clips) = 1
       /\ Len(task[t].scenes) = 2
       /\ JOBS[task[t].job_id].status = "failed"

\* a job record in a terminal state: completed, or failed with its error recorded
Terminal(job) ==
    \/ job.status = "completed"
    \/ job.status = "failed" /\ Has(job, "error")

\* C2: terminal states are final.  Once a job is completed or failed, no step
\* changes its status or any other field of its record.
C2_TerminalFinal ==
    [][\A j \in DOMAIN JOBS : Terminal(JOBS[j]) => JOBS'[j] = JOBS[j]]_vars

\* C3: in every state (each can be read by a concurrent get_status or
\* download_video) a job record holds video_path iff its status is completed.
C3_ResultPathIffCompleted ==
    \A j \in DOMAIN JOBS : Has(JOBS[j], "video_path") <=> JOBS[j].status = "completed"

\* C4: in every state a job record holds error iff its status is failed.
C4_ErrorIffFailed ==
    \A j \in DOMAIN JOBS : Has(JOBS[j], "error") <=> JOBS[j].status = "failed"

\* C5: progress is an integer in 0..100 that no write decreases, in the job
\* record of api.py and on the progress bar of app.py.
C5_ProgressMonotone ==
    [][/\ \A j \in DOMAIN JOBS :
             /\ JOBS'[j].progress \in 0..100
             /\ JOBS'[j].progress >= JOBS[j].progress
       /\ app'.progress \in 0..100
       /\ app'.progress >= app.progress]_vars

\* C5 witness: the progress of the second clip has been written
C5_Witness ==
    \E t \in TaskIds :
       /\ task[t].pc = "L269"
       /\ task[t].i = 1
       /\ JOBS[task[t].job_id].progress = 55

\* the stage a reader sees in a job record: the status, and while processing
\* the activity the message names
Stage(job) ==
    IF job.status # "processing" THEN job.status
    ELSE CASE job.message = Msg("Job queued") -> "processing"
           [] job.message = Msg("Transcribing audio...") -> "transcribing"
           [] job.message = Msg("Generating scene descriptions...") -> "planning"
           [] job.message = Msg("Assembling video...") -> "assembling"
           [] job.message = Msg("Adding audio...") -> "audio merge"
           [] OTHER -> "generating clips"

StageOrder ==
    <<"pending", "processing", "transcribing", "planning", "generating clips",
      "assembling", "audio merge", "completed">>

Rank(stage) == CHOOSE n \in 1..Len(StageOrder) : StageOrder[n] = stage

\* C6: the job state machine only moves forward.  A step that changes a job's
\* stage moves it to a later stage of the fixed order or to failed, and no step
\* leaves completed or failed.
C6_ForwardOnly ==
    [][\A j \in DOMAIN JOBS :
          Stage(JOBS'[j]) # Stage(JOBS[j]) =>
             /\ Stage(JOBS[j]) \notin {"completed", "failed"}
             /\ \/ Stage(JOBS'[j]) = "failed"
                \/ Rank(Stage(JOBS'[j])) > Rank(Stage(JOBS[j]))]_vars

\* C7: every error of a stage fails the job with the error's text.  A task that
\* ended after an exception left its job failed with that exception's text as
\* error, and a planner response that cannot be parsed (no JSON array in it)
\* is an error too: it never becomes the plan.
C7_ErrorsFailTheJob ==
    \A t \in TaskIds :
       /\ (task[t].pc = "done" /\ task[t].exc # "") =>
             /\ JOBS[task[t].job_id].status = "failed"
             /\ JOBS[task[t].job_id].error = task[t].exc
       /\ task[t].scenes # <<RawContent>>

\* C8: clip assembly order equals scene order.  In every call of
\* concatenate_videos the k-th path is the clip file of scene k (0-based k-1)
\* and holds the clip rendered for that scene's prompt.
C8_AssemblyOrder ==
    \A n \in ConcatCalls :
       /\ Len(calls[n].arg.paths) = PlanLength(calls[n].task)
       /\ \A k \in 1..Len(calls[n].arg.paths) :
             /\ calls[n].arg.paths[k] =
                   ClipPath(IF program = "api" THEN task[calls[n].task].job_id ELSE AppDir, k - 1)
             /\ Has(calls[n].arg.contents[k], "of")
             /\ IF program = "api"
                THEN calls[n].arg.contents[k].of = task[calls[n].task].scenes[k]
                ELSE calls[n].arg.contents[k].of[Len(calls[n].arg.contents[k].of)]
                        = app.prompts[k].prompt

\* C8 witness: concatenate_videos was called with the clips of a two-scene plan
C8_Witness ==
    \E n \in ConcatCalls : Len(calls[n].arg.paths) = 2

\* the prompt the composition order of the specification gives: style notes,
\* then animation direction, then the scene's text
OrderedPrompt(prompt, style_notes, image_direction, image_uri) ==
    (IF Strip(style_notes) # "" THEN <<Part(Strip(style_notes)), Part(". ")>> ELSE <<>>)
    \o (IF image_uri # NoImage /\ image_direction # ""
        THEN <<Part(image_direction), Part(". ")>> ELSE <<>>)
    \o <<prompt>>

\* C9: the prompt sent for a clip is composed left to right of the optional
\* style notes, then the optional image-animation direction (only for a clip
\* with a reference image), then the scene's own text.
C9_PromptOrder ==
    clip.pc \in {"generate", "sent"} =>
       clip.full_prompt = OrderedPrompt(clip.prompt, clip.style_notes,
                                        clip.image_direction, clip.image_uri)

CatalogSet == {VALID_DURATIONS[n] : n \in 1..Len(VALID_DURATIONS)}

\* the catalog entry nearest to d, the smaller one of two equally near
Nearest(d) ==
    CHOOSE q \in CatalogSet :
       \A x \in CatalogSet :
          \/ Abs(q - d) < Abs(x - d)
          \/ Abs(q - d) = Abs(x - d) /\ q <= x

\* C10: the duration in the provider request is a catalog member.  It is the
\* catalog entry nearest to the duration handed in (the duration itself when it
\* is on the catalog, the smaller entry on a tie, 10 for 11), cut to 10 when
\* the 10-second cap applies, and it is on the catalog after the cap too.
C10_DurationInCatalog ==
    clip.pc = "sent" =>
       /\ clip.request.duration \in CatalogSet
       /\ clip.duration \in CatalogSet => Nearest(clip.duration) = clip.duration
       /\ clip.request.duration =
             IF CapApplies(clip.settings) THEN Min2(Nearest(clip.duration), 10)
             ELSE Nearest(clip.duration)

\* C10 witness: a duration of 11 was sent as 10 under the baseline settings
C10_Witness ==
    /\ clip.pc = "sent"
    /\ clip.duration = 11
    /\ ~CapApplies(clip.settings)
    /\ clip.request.duration = 10

\* the request was built under the baseline: fast model, 1920x1080, 25 fps
BaselineRequest(request) ==
    /\ request.model = "ltx-2-fast"
    /\ request.resolution = "1920x1080"
    /\ request.fps = 25

\* C11: the 10-second cap.  A request sent with the pro model, a resolution
\* other than 1920x1080 or 50 fps carries a duration of at most 10 whatever
\* duration was planned (20 included): it is the quantized duration cut to 10.
\* A request sent under the baseline carries the quantized duration uncut.
C11_CapAfterQuantize ==
    clip.pc = "sent" =>
       IF BaselineRequest(clip.request)
       THEN clip.request.duration = Nearest(clip.duration)
       ELSE /\ clip.request.duration <= 10
            /\ clip.request.duration = Min2(Nearest(clip.duration), 10)

\* C11 witness: a planned duration of 20 was sent as 10 with the fast model at
\* 25 fps in 4K, and as 20 under the baseline
C11_Witness ==
    /\ clip.pc = "sent"
    /\ clip.duration = 20
    /\ clip.request.model = "ltx-2-fast"
    /\ clip.request.fps = 25
    /\ clip.request.resolution = "3840x2160"
    /\ clip.request.duration = 10

Clamp(x, lo, hi) == IF x < lo THEN lo ELSE IF x > hi THEN hi ELSE x

\* C12 as stated, in halves: the clip count is
\* clamp(scale * clamp(floor(D/12), 4, 30), 4, 40), the product taken as it is
C12_ClipCountAsStated ==
    planner.pc = "done" =>
       2 * planner.num_clips =
          Clamp(density_multiplier(planner.density) * Clamp(planner.duration \div 12, 4, 30),
                8, 80)

\* C12: for every total duration and every density the clip count is
\* clamp(floor(scale * clamp(floor(D/12), 4, 30)), 4, 40), the scaled count
\* rounded down to a whole number before the second clamp; it lies in 4..40, and
\* in 4..30 for the balanced density and for a density the table does not hold.
C12_ClipCount ==
    planner.pc = "done" =>
       /\ planner.num_clips =
             Clamp((density_multiplier(planner.density)
                       * Clamp(planner.duration \div 12, 4, 30)) \div 2, 4, 40)
       /\ planner.num_clips \in 4..40
       /\ planner.density \in {"Balanced", "Custom"} => planner.num_clips \in 4..30

\* C12 witness: 60 seconds at the dense setting gave 7 clips (5 * 1.5 = 7.5)
C12_Witness ==
    /\ planner.pc = "done"
    /\ planner.duration = 60
    /\ planner.density = "Dense (more shots)"
    /\ planner.base_clips = 5
    /\ planner.num_clips = 7

\* C13: a job submitted with prompt_override skips Transcribing and Planning.
\* Its task calls neither transcribe_audio nor generate_scene_prompts, its
\* record never shows either stage as the current activity, and from clip
\* generation on its plan is the one scene whose prompt is the override text.
C13_OverrideSkipsStages ==
    \A t \in TaskIds :
       task[t].prompt_override # NoOverride =>
          /\ \A n \in 1..Len(calls) :
                calls[n].task = t =>
                   calls[n].op \notin {"transcribe_audio", "generate_scene_prompts"}
          /\ Stage(JOBS[task[t].job_id]) \notin {"transcribing", "planning"}
          /\ task[t].pc \in {"L264", "L268", "L269", "L271", "L278", "L282", "L283", "L286"}
                => task[t].scenes = <<task[t].prompt_override>>

\* the calls of generate_video_clip made so far by background tasks
ClipCalls == {n \in 1..Len(calls) : program = "api" /\ calls[n].op = "generate_video_clip"}

\* C14: with prompt_override the one scene is sent to the provider with the
\* duration of the submitted audio quantized to the catalog (20 for the 60
\* seconds submitted), not with a fixed default.
C14_OverrideDuration ==
    \A n \in ClipCalls :
       task[calls[n].task].prompt_override # NoOverride =>
          calls[n].arg.duration = Nearest(AudioContent.seconds)

\* the exceptions raised on a planner response that is no plan
ParseErrors == {"JSONDecodeError", "KeyError: 'duration'"}

\* C15: a planner response that cannot be parsed into a plan fails the job at
\* planning.  No clip is ever requested for the raw text of such a response,
\* and after a parse error no clip request has been made at all and the run is
\* on its failure path.
C15_NoSubstituteScene ==
    /\ \A n \in ClipCalls : calls[n].arg.prompt # RawContent
    /\ \A t \in TaskIds :
          task[t].exc \in ParseErrors =>
             /\ \A n \in 1..Len(calls) : calls[n].op # "generate_video_clip"
             /\ task[t].pc \in AfterFailure
    /\ app.exc \in ParseErrors =>
          /\ \A n \in 1..Len(calls) : calls[n].op # "generate_video_clip"
          /\ app.prompts = <<>>
          /\ app.pc \in {"A907", "A911", "done"}

\* the positions of the background task from clip generation to the end of the
\* try block, and those of main() in app.py
AfterPlanning ==
    {"L264", "L268", "L269", "L271", "L278", "L282", "L283", "L286", "L289", "L290",
     "L293", "L296", "L297", "L298", "L299", "L302"}

AppAfterPlanning == {"A837", "A865", "A877", "A880", "A883", "A885"}

\* C16: an empty plan is a planning failure.  With a plan of zero scenes the
\* run never stands in clip generation or assembling, and concatenate_videos is
\* never called with an empty clip list.
C16_EmptyPlanFails ==
    /\ \A t \in TaskIds : task[t].scenes = <<>> => task[t].pc \notin AfterPlanning
    /\ app.prompts = <<>> => app.pc \notin AppAfterPlanning
    /\ \A n \in ConcatCalls : calls[n].arg.paths # <<>>

\* the intermediate files of job (or directory) j that exist: clip files, the
\* concatenated video and the list file written for ffmpeg
Intermediates(j) ==
    {p \in DOMAIN files : p[1] = j /\ p[2] \in {"clip", "concat.mp4", "concat.mp4.txt"}}

\* C17: intermediate files are released on both terminal paths.  When the
\* background task has ended, with its job completed or failed, no clip file
\* and no concatenation artifact of the job is left; likewise when main() of
\* app.py has ended.
C17_IntermediatesReleased ==
    /\ \A t \in TaskIds : task[t].pc = "done" => Intermediates(task[t].job_id) = {}
    /\ app.pc = "done" => Intermediates(AppDir) = {}

\* C18: cleanup after completed removes exactly the intermediate artifacts.
\* When a run that reached completed (video_path recorded; the bar at 100 in
\* app.py) has ended, every clip file and the concatenated file are gone, and
\* the source audio and the final video are still there.
C18_CleanupExact ==
    /\ \A t \in TaskIds :
          (task[t].pc = "done" /\ Has(JOBS[task[t].job_id], "video_path")) =>
             /\ Intermediates(task[t].job_id) = {}
             /\ Has(files, AudioPath(task[t].job_id))
             /\ Has(files, FinalPath(task[t].job_id))
    /\ (app.pc = "done" /\ app.progress = 100) =>
          /\ Intermediates(AppDir) = {}
          /\ Has(files, UploadedAudio)
          /\ Has(files, FinalPath(AppDir))

\* C19: a status response that reports completed carries a result reference:
\* its video_url is set.
C19_CompletedHasVideoUrl ==
    (resp.op = "get_status" /\ resp.code = 200 /\ resp.status = "completed") =>
       resp.video_url # NoneValue

\* this step returns a response of download_video
DownloadReturns == resp'.op = "download_video" /\ (resp' # resp \/ rd' # rd)

\* C20: download_video returns the file only for a completed job.  A request
\* for an unknown job is answered 404 and goes no further; the handler passes
\* its status test only when the status it reads is completed, and answers 400
\* for pending, processing and failed; a 200 response carries the final video
\* of a job whose result path is recorded.
C20_DownloadOnlyCompleted ==
    [][/\ (rd = Idle /\ rd'.op = "download_video") => Has(JOBS, rd'.job_id)
       /\ (rd = Idle /\ DownloadReturns) =>
             /\ resp'.code = 404
             /\ \E j \in JobIds : ~Has(JOBS, j)
       /\ (rd.op = "download_video" /\ rd.pc = "D416" /\ rd' # rd) =>
             IF JOBS[rd.job_id].status = "completed"
             THEN rd'.op = "download_video" /\ rd'.pc = "D419" /\ resp' = resp
             ELSE /\ JOBS[rd.job_id].status \in {"pending", "processing", "failed"}
                  /\ resp'.op = "download_video" /\ resp'.code = 400
                  /\ rd' = Idle
       /\ (DownloadReturns /\ resp'.code = 200) =>
             /\ rd.op = "download_video" /\ rd.pc = "D419"
             /\ Has(JOBS[rd.job_id], "video_path")
             /\ resp'.file = files[FinalPath(rd.job_id)]
             /\ resp'.file.kind = "final"]_vars

\* C20 witness: the final video was returned for a completed job
C20_Witness ==
    /\ resp.op = "download_video"
    /\ resp.code = 200
    /\ resp.file.kind = "final"
    /\ JOBS[resp.job_id].status = "completed"

\* C21: no indefinite blocking.  Every job that starts processing eventually
\* reaches completed or failed, given that every call with a timeout returns
\* or raises.
C21_EventuallyTerminal ==
    \A j \in JobIds :
       (j \in DOMAIN JOBS /\ JOBS[j].status = "processing")
          ~> (j \in DOMAIN JOBS /\ JOBS[j].status \in {"completed", "failed"})

\* the progress value of a stage that has one
StageProgress(stage) ==
    CASE stage = "transcribing" -> 10
      [] stage = "planning" -> 20
      [] stage = "assembling" -> 85
      [] stage = "audio merge" -> 95
      [] stage = "completed" -> 100

\* C22: a status response that reports completed reports progress 100, and one
\* that reports transcribing, planning, assembling or audio merge reports the
\* progress of that stage: 10, 20, 85, 95.
C22_StatusMatchesProgress ==
    (resp.op = "get_status" /\ resp.code = 200) =>
       (Stage(resp) \in {"transcribing", "planning", "assembling", "audio merge", "completed"}
           => resp.progress = StageProgress(Stage(resp)))

\* C23: during clip generation the progress is linear on 30..80.  Once the
\* progress of clip i (0-based) of N scenes is written and until the clip is
\* dispatched it is 30 + floor(50*i/N): at least 30, below 80, and not above
\* the 85 of Assembling; in api.py and in app.py.
C23_LinearClipProgress ==
    /\ \A t \in TaskIds :
          task[t].pc \in {"L269", "L271"} =>
             /\ JOBS[task[t].job_id].progress = 30 + ((50 * task[t].i) \div Len(task[t].scenes))
             /\ JOBS[task[t].job_id].progress \in 30..79
    /\ app.pc = "A865" =>
          /\ app.progress = 30 + ((50 * app.i) \div Len(app.prompts))
          /\ app.progress \in 30..79

\* the call this step appends to the log
NewCall == calls'[Len(calls')]

\* C24: no automatic retry.  A run calls transcribe_audio and
\* generate_scene_prompts at most once each and generate_video_clip and
\* download_file at most once per scene index, and once a call or any other
\* step has failed it makes no further call.
C24_NoRetry ==
    [][calls' # calls =>
          /\ IF program = "api" THEN task[NewCall.task].exc = "" ELSE app.exc = ""
          /\ NewCall.op \in {"transcribe_audio", "generate_scene_prompts"} =>
                \A n \in 1..Len(calls) : calls[n].op # NewCall.op
          /\ NewCall.op = "generate_video_clip" =>
                \A n \in 1..Len(calls) :
                   calls[n].op = "generate_video_clip" => calls[n].arg.i # NewCall.arg.i
          /\ NewCall.op = "download_file" =>
                \A n \in 1..Len(calls) :
                   calls[n].op = "download_file" => calls[n].arg # NewCall.arg]_vars

\* C24 witness: the second clip request failed and the task ended after two
\* clip requests and one download
C24_Witness ==
    \E t \in TaskIds :
       /\ task[t].pc = "done"
       /\ task[t].exc = "generate_video_clip failed"
       /\ task[t].i = 1
       /\ Cardinality(ClipCalls) = 2
       /\ Cardinality({n \in 1..Len(calls) : calls[n].op = "download_file"}) = 1

\* C25: in cycle mode scene i (0-based) gets image i mod K, for every number
\* K >= 1 of images and every number of scenes.
C25_CycleAssignment ==
    (chooser.image_mode = "cycle" /\ Len(chooser.image_uris) >= 1) =>
       \A k \in 1..Len(chooser.assigned) :
          chooser.assigned[k] = ImageUri((k - 1) % Len(chooser.image_uris))

\* C25 witness: 7 scenes over 3 images got the images 0, 1, 2, 0, 1, 2, 0
C25_Witness ==
    /\ chooser.pc = "done"
    /\ chooser.image_mode = "cycle"
    /\ Len(chooser.image_uris) = 3
    /\ chooser.assigned = <<ImageUri(0), ImageUri(1), ImageUri(2), ImageUri(0),
                           ImageUri(1), ImageUri(2), ImageUri(0)>>

\* C26: compressing an oversized file never raises and uses a bitrate between
\* 32 and 128 kbps, whatever duration was probed (0 and very long ones
\* included): the 20 MiB target in bits over the duration, in kbps, clamped.
C26_BitrateClamped ==
    /\ compress.exc = ""
    /\ compress.pc \in {"W166", "done"} /\ compress.file_size_mb > max_size_mb =>
          /\ compress.target_bitrate \in 32..128
          /\ compress.duration > 0
          /\ compress.target_bitrate =
                Clamp(target_size_bits \div (compress.duration * 1000), 32, 128)

\* this step is a step of get_status or download_video
ReaderStep == rd' # rd \/ (resp' # resp /\ resp'.op \in {"get_status", "download_video"})

\* C27: readers never write, and a record has one writer.  A step of
\* get_status or download_video leaves JOBS unchanged; no record is removed; a
\* record appears only as the pending record of a Submit, and an existing
\* record changes only in a step of the one background task that holds its id.
C27_ReadersNeverWrite ==
    [][/\ ReaderStep => JOBS' = JOBS
       /\ \A j \in DOMAIN JOBS : j \in DOMAIN JOBS'
       /\ \A j \in DOMAIN JOBS' :
             IF j \notin DOMAIN JOBS THEN JOBS'[j] = NewJob
             ELSE JOBS'[j] # JOBS[j] =>
                     \E t \in DOMAIN task :
                        /\ task[t].pc # "unscheduled"
                        /\ task[t].job_id = j
                        /\ task'[t] # task[t]
                        /\ \A u \in DOMAIN task : u # t => task[u].job_id # j]_vars

\* C28: job ids are unique.  The Submit that schedules a task stores its job
\* under an id no job in the store uses, leaves every other record and every
\* other job's audio file as they are, and no two scheduled tasks hold the same
\* job id.
C28_UniqueJobIds ==
    [][\A t \in DOMAIN task :
          (task[t].pc = "unscheduled" /\ task'[t].pc # "unscheduled") =>
             /\ task'[t].job_id \notin DOMAIN JOBS
             /\ \A j \in DOMAIN JOBS : JOBS'[j] = JOBS[j]
             /\ \A j \in DOMAIN JOBS :
                   Has(files, AudioPath(j)) => Get(files', AudioPath(j)) = files[AudioPath(j)]
             /\ \A u \in DOMAIN task :
                   (u # t /\ task[u].pc # "unscheduled") => task[u].job_id # task'[t].job_id]_vars

\* this step returns an error response of generate_video
RejectedStep == resp' # resp /\ resp'.op = "generate" /\ resp'.code # 200

\* C29: a rejected Submit creates no job.  A step that answers POST /generate
\* with an error leaves the job store and the background tasks as they are; a
\* record enters the store only as a pending record, answered 200, with the
\* job's audio stored and its task scheduled; and a task is scheduled only
\* with such a record.
C29_RejectedCreatesNoJob ==
    [][/\ RejectedStep => JOBS' = JOBS /\ task' = task
       /\ \A j \in DOMAIN JOBS' :
             j \notin DOMAIN JOBS =>
                /\ JOBS'[j].status = "pending"
                /\ resp'.op = "generate" /\ resp'.code = 200 /\ resp'.job_id = j
                /\ Has(files', AudioPath(j))
                /\ files'[AudioPath(j)] = AudioContent
                /\ \E t \in DOMAIN task :
                      /\ task[t].pc = "unscheduled"
                      /\ task'[t] = NewTask(j, task'[t].prompt_override)
       /\ \A t \in DOMAIN task :
             (task[t].pc = "unscheduled" /\ task'[t].pc # "unscheduled") =>
                /\ resp'.op = "generate" /\ resp'.code = 200
                /\ task'[t].job_id \in DOMAIN JOBS'
                /\ JOBS'[task'[t].job_id] = NewJob]_vars

\* C29 witness: a request whose base64 audio does not decode was answered with
\* an error; the store is empty and no task is scheduled
C29_Witness ==
    /\ resp.op = "generate"
    /\ resp.code = 500
    /\ \E j \in JobIds : Has(files, AudioPath(j)) /\ files[AudioPath(j)].kind = "empty"
    /\ JOBS = EmptyDict
    /\ \A t \in TaskIds : task[t].pc = "unscheduled"

KeyErrors == {"OpenAI API key not configured", "LTX API key not configured"}

\* C30: a failure writes only status and error.  From the step that fails on,
\* the job's progress and message stay as they were and no video_path is
\* added; and a task that ended on a missing API key, with or without
\* prompt_override, left its job failed at progress 0 with no call made.
C30_FailureWritesStatusAndError ==
    [][\A t \in TaskIds :
          (task'[t].exc # "" /\ task'[t].job_id \in DOMAIN JOBS) =>
             /\ JOBS'[task'[t].job_id].progress = JOBS[task'[t].job_id].progress
             /\ JOBS'[task'[t].job_id].message = JOBS[task'[t].job_id].message
             /\ Has(JOBS'[task'[t].job_id], "video_path")
                   <=> Has(JOBS[task'[t].job_id], "video_path")
             /\ (task'[t].pc = "done" /\ task'[t].exc \in KeyErrors) =>
                   /\ JOBS'[task'[t].job_id].status = "failed"
                   /\ JOBS'[task'[t].job_id].error = task'[t].exc
                   /\ JOBS'[task'[t].job_id].progress = 0
                   /\ calls' = <<>>]_vars

\* C30 witness: a job with prompt_override ended failed on the missing OpenAI key,
\* at progress 0 and with no call made
C30_Witness ==
    \E t \in TaskIds :
       /\ task[t].pc = "done"
       /\ task[t].exc = "OpenAI API key not configured"
       /\ task[t].prompt_override = OverrideText
       /\ JOBS[task[t].job_id].status = "failed"
       /\ JOBS[task[t].job_id].progress = 0
       /\ calls = <<>>

====
